---- MODULE Spec2Model ----
(***************************************************************************)
(* Conversation orchestration of the chat service:                         *)
(*   - Assistant.Reply, the bounded tool-calling loop                      *)
(*   - Assistant.Title, the single-shot title completion                   *)
(*   - Server.StartConversation, the title/reply fan-out and join          *)
(*   - WeatherClient.GetCurrentWeather, the retry/backoff loop             *)
(*                                                                         *)
(* A text is a sequence of atoms; an atom is a string standing for a run   *)
(* of bytes.  Whitespace and the punctuation the code trims are always     *)
(* atoms of their own, so trimming works atom by atom.  An error value is  *)
(* a string, Nil being Go's nil error.                                     *)
(***************************************************************************)
EXTENDS Integers, Sequences, FiniteSets, TLC

VARIABLES
    conv,       \* the *model.Conversation the assistant is working on
    script,     \* the tool-call batch the model capability asks for, with each tool's outcome
    msgs,       \* Reply: the turn sequence sent to the model
    i,          \* Reply: the loop counter
    rpc,        \* Reply: program point
    calls,      \* Reply: message.ToolCalls of the model turn being dispatched
    k,          \* Reply: index of the tool call being dispatched
    rret,       \* Reply: the returned (text, err)
    nModel,     \* Reply: number of Chat.Completions.New calls made
    nExec,      \* Reply: number of Tool.Execute calls made
    inflight,   \* Reply: the outstanding external call, if any
    resp,       \* Reply: the latest response of the model capability
    tpc,        \* Title: program point
    tmsgs,      \* Title: the turn sequence sent to the model
    tresp,      \* Title: the response of the model capability
    tret,       \* Title: the returned (text, err)
    nTitle,     \* Title: number of Chat.Completions.New calls made
    req,        \* Server: the request being handled
    spc,        \* Server: program point of the handler
    wg,         \* StartConversation: the WaitGroup counter
    titleChan,  \* StartConversation: the buffered channel of the title task
    replyChan,  \* StartConversation: the buffered channel of the reply task
    titleResult,    \* StartConversation: what was received from titleChan
    replyResult,    \* StartConversation: what was received from replyChan
    sret,       \* Server: the handler's (response, err)
    repo,       \* Repository: the stored conversations, by identifier
    repoCalls,  \* Repository: the calls made by the handler, in order
    apiKey,     \* WeatherClient: the API key
    location,   \* GetCurrentWeather: the location asked for
    cancelled,  \* GetCurrentWeather: whether ctx is done
    wpc,        \* GetCurrentWeather: program point
    attempt,    \* GetCurrentWeather: the loop counter
    lastErr,    \* GetCurrentWeather: the error of the latest failed fetch
    wret,       \* GetCurrentWeather: the returned (text, err)
    nFetch,     \* GetCurrentWeather: number of fetchWeather calls made
    waits,      \* GetCurrentWeather: the delays of the backoff waits started, in order
    timer,      \* GetCurrentWeather: whether time.After(delay) is ready
    fetchErrs,  \* GetCurrentWeather: the errors fetchWeather returned, in order
    hargs,      \* HolidaysTool.Execute: the arguments of the call
    feed,       \* HolidaysTool.Execute: the events of the calendar, in feed order
    feedErr,    \* HolidaysTool.Execute: the error of LoadCalendar
    hpc,        \* HolidaysTool.Execute: program point
    hret        \* HolidaysTool.Execute: the returned (text, err)

replyVars == <<msgs, i, rpc, calls, k, rret, nModel, nExec, inflight, resp>>

titleVars == <<tpc, tmsgs, tresp, tret, nTitle>>

srvVars == <<req, spc, wg, titleChan, replyChan, titleResult, replyResult, sret, repo, repoCalls>>

wxVars == <<apiKey, location, cancelled, wpc, attempt, lastErr, wret, nFetch, waits, timer, fetchErrs>>

holVars == <<hargs, feed, feedErr, hpc, hret>>

vars == <<conv, script, replyVars, titleVars, srvVars, wxVars, holVars>>

Nil == "nil"

----------------------------------------------------------------------------
(* Bounds of the model *)

\* most tool calls in one model turn
MaxCalls == 2

\* the longest conversation Title is called on
MaxMsgs == 2

\* the longest calendar feed
MaxEvents == 3

\* a further request arrives only while the repository holds fewer messages
\* than this
MaxStored == 3

----------------------------------------------------------------------------
(* strings *)

Space == " "
Tab == "\t"
CR == "\r"
NL == "\n"

RECURSIVE TrimLeftIn(_, _)
TrimLeftIn(s, cut) ==
    IF s = <<>> THEN <<>>
    ELSE IF Head(s) \in cut THEN TrimLeftIn(Tail(s), cut)
    ELSE s

RECURSIVE TrimRightIn(_, _)
TrimRightIn(s, cut) ==
    IF s = <<>> THEN <<>>
    ELSE IF s[Len(s)] \in cut THEN TrimRightIn(SubSeq(s, 1, Len(s) - 1), cut)
    ELSE s

\* nothing is trimmed
TrimSpaceKeepsAll(s) == s

\* the bytes 0x0B (vertical tab) and 0x0C (form feed)
VT == "0x0B"
FF == "0x0C"

\* unicode.IsSpace: the UTF-8 encodings of the runes it accepts, byte by byte.
\* U+0009..U+000D and U+0020 are one byte each, U+0085 and U+00A0 two,
\* U+1680, U+2000..U+200A, U+2028, U+2029, U+202F, U+205F and U+3000 three
WhiteSpace ==
    { <<Tab>>, <<NL>>, <<VT>>, <<FF>>, <<CR>>, <<Space>>,
      <<"0xC2", "0x85">>, <<"0xC2", "0xA0">>,
      <<"0xE1", "0x9A", "0x80">>,
      <<"0xE2", "0x81", "0x9F">>,
      <<"0xE3", "0x80", "0x80">> } \cup
    { <<"0xE2", "0x80", b>> :
        b \in {"0x80", "0x81", "0x82", "0x83", "0x84", "0x85", "0x86", "0x87",
               "0x88", "0x89", "0x8A", "0xA8", "0xA9", "0xAF"} }

\* strings.TrimLeftFunc(s, unicode.IsSpace): the runes are decoded from the
\* front, and the first one that is not white space ends the trim
RECURSIVE TrimLeftFunc(_)
TrimLeftFunc(s) ==
    IF \E n \in 1..3 : n <= Len(s) /\ SubSeq(s, 1, n) \in WhiteSpace
    THEN LET n == CHOOSE m \in 1..3 : m <= Len(s) /\ SubSeq(s, 1, m) \in WhiteSpace
         IN TrimLeftFunc(SubSeq(s, n + 1, Len(s)))
    ELSE s

\* strings.TrimRightFunc(s, unicode.IsSpace): the runes are decoded from the
\* back
RECURSIVE TrimRightFunc(_)
TrimRightFunc(s) ==
    IF \E n \in 1..3 : n <= Len(s) /\ SubSeq(s, Len(s) - n + 1, Len(s)) \in WhiteSpace
    THEN LET n == CHOOSE m \in 1..3 :
                      m <= Len(s) /\ SubSeq(s, Len(s) - m + 1, Len(s)) \in WhiteSpace
         IN TrimRightFunc(SubSeq(s, 1, Len(s) - n))
    ELSE s

\* strings.TrimSpace
TrimSpace(s) == TrimRightFunc(TrimLeftFunc(s))

----------------------------------------------------------------------------
(* model.Conversation and model.Message *)

RoleUser == "user"
RoleAssistant == "assistant"

Message(role, content) == [Role |-> role, Content |-> content]

Hi == <<"h", "i">>
Yo == <<"y", "o">>

----------------------------------------------------------------------------
(* The tools registered by assistant.New *)

DateToolName == "get_today_date"
HolidaysToolName == "get_holidays"
WeatherToolName == "get_weather"

\* Assistant.tools after New(): the keys of the map
RegisteredTools == {DateToolName, HolidaysToolName, WeatherToolName}

\* a name the model may hallucinate
UnknownToolName == "get_flights"

ToolNames == RegisteredTools \cup {UnknownToolName}

Outcome(res, err) == [res |-> res, err |-> err]

\* the texts the tools return next to an error
WeatherFallback == <<"Unable to fetch weather data at the moment. The weather is probably fine though!">>
WeatherUnconfigured == <<"Weather API key not configured">>
HolidaysFallback == <<"Failed to load holiday events">>

\* What DateTool.Execute can return
DateOutcomes == {Outcome(<<"2026-10-30T12:00:00Z">>, Nil)}

\* What WeatherTool.Execute can return: a decoding error, or whatever
\* GetCurrentWeather returns
WeatherOutcomes ==
    { Outcome(<<>>, "invalid arguments"),
      Outcome(WeatherUnconfigured, "WEATHER_API_KEY not set"),
      Outcome(<<>>, "context canceled"),
      Outcome(<<"Current weather in Barcelona">>, Nil),
      Outcome(WeatherFallback, "making request: timeout") }

\* What HolidaysTool.Execute can return
HolidaysOutcomes ==
    { Outcome(<<>>, "invalid arguments"),
      Outcome(HolidaysFallback, "calendar unreachable"),
      Outcome(<<"2024-06-15: Sant Joan">>, Nil) }

\* fmt.Errorf("unknown tool: %s", name)
UnknownToolErr(name) == "unknown tool: " \o name

\* what executeTool can return for a name: what Execute of the tool registered
\* under it returns, or the empty string and an error when none is registered
ExecuteOutcomes(name) ==
    CASE name = DateToolName -> DateOutcomes
      [] name = WeatherToolName -> WeatherOutcomes
      [] name = HolidaysToolName -> HolidaysOutcomes
      [] OTHER -> {Outcome(<<>>, UnknownToolErr(name))}

\* One tool call the model asks for, with what the tool will answer
ScriptCalls ==
    UNION { { [Name |-> n, out |-> o] : o \in ExecuteOutcomes(n) } : n \in ToolNames }

\* the batches of 1..n calls
RECURSIVE Batches(_)
Batches(n) ==
    IF n = 0 THEN {}
    ELSE Batches(n - 1) \cup [1..n -> ScriptCalls]

----------------------------------------------------------------------------
(* Assistant.Reply *)

\* the loop runs once more than it should
MaxIterationsOneMore == 15 + 1

\* the bound of the for loop
MaxIterations == 15

SystemPreamble == <<"You are a helpful, concise AI assistant. Provide accurate, safe, and clear responses.">>

\* one openai.ChatCompletionMessageParamUnion
Turn(role, content, toolCalls, callID) ==
    [role |-> role, content |-> content, toolCalls |-> toolCalls, callID |-> callID]

NoCallID == <<>>

SystemMessage(content) == Turn("system", content, <<>>, NoCallID)
UserMessage(content) == Turn("user", content, <<>>, NoCallID)
AssistantMessage(content) == Turn("assistant", content, <<>>, NoCallID)
ToolMessage(content, callID) == Turn("tool", content, <<>>, callID)

\* the switch on m.Role: a user or assistant message gives one turn
RECURSIVE MapMessages(_)
MapMessages(ms) ==
    IF ms = <<>> THEN <<>>
    ELSE LET m == Head(ms)
             t == IF m.Role = RoleUser THEN <<UserMessage(m.Content)>>
                  ELSE IF m.Role = RoleAssistant THEN <<AssistantMessage(m.Content)>>
                  ELSE <<>>
         IN t \o MapMessages(Tail(ms))

\* msgs as seeded before the loop
SeedTurns(c) == <<SystemMessage(SystemPreamble)>> \o MapMessages(c.Messages)

\* The tool calls of the model's n-th response: the batch of the script, with
\* identifiers issued by the model, unique over the whole exchange
ToolCallsOf(sc, n) ==
    [j \in 1..Len(sc) |-> [ID |-> <<n, j>>, Name |-> sc[j].Name]]

\* fmt.Sprintf("Tool execution failed: %v", err)
FailureText(err) == <<"Tool execution failed: ", err>>

\* the string returned next to the error is kept in front of the failure text
ToolResultTextKeepsResult(out) ==
    IF out.err # Nil THEN out.res \o FailureText(out.err) ELSE out.res

\* the text of the tool-result turn for what executeTool returned
ToolResultText(out) == IF out.err # Nil THEN FailureText(out.err) ELSE out.res

ErrNoMessages == "conversation has no messages"
ErrNoChoices == "no choices returned by OpenAI"
ErrTooManyToolCalls == "too many tool calls, unable to generate reply"
ErrModel == "model call failed"

\* the free-text answers of the model
ReplyTexts == {<<"s", "u", "n", "n", "y">>, <<>>}

\* a result of Chat.Completions.New: the error, the number of choices and the
\* first choice's message
Response(err, choices, content, toolCalls) ==
    [err |-> err, choices |-> choices, content |-> content, toolCalls |-> toolCalls]

NoResponse == Response("pending", 0, <<>>, <<>>)

Return(text, err) == [text |-> text, err |-> err]
NoReturn == Return(<<>>, "pending")

\* the entry of Reply without the guard on an empty conversation
ReplyEnterNoGuard ==
    /\ rpc = "call"
    /\ msgs' = SeedTurns(conv)
    /\ i' = 0
    /\ rpc' = "loop"
    /\ UNCHANGED <<conv, script, calls, k, rret, nModel, nExec, inflight, resp, titleVars, srvVars, wxVars, holVars>>

\* the entry of Reply: the guard on an empty conversation and the seeding of msgs
ReplyEnter ==
    /\ rpc = "call"
    /\ IF Len(conv.Messages) = 0
       THEN /\ rret' = Return(<<>>, ErrNoMessages)
            /\ rpc' = "done"
            /\ UNCHANGED <<msgs, i>>
       ELSE /\ msgs' = SeedTurns(conv)
            /\ i' = 0
            /\ rpc' = "loop"
            /\ UNCHANGED rret
    /\ UNCHANGED <<conv, script, calls, k, nModel, nExec, inflight, resp, titleVars, srvVars, wxVars, holVars>>

\* the loop condition holds: Chat.Completions.New is called with msgs
ModelCall ==
    /\ rpc = "loop"
    /\ i < MaxIterations
    /\ nModel' = nModel + 1
    /\ inflight' = "model"
    /\ rpc' = "await"
    /\ UNCHANGED <<conv, script, msgs, i, calls, k, rret, nExec, resp, titleVars, srvVars, wxVars, holVars>>

\* the loop condition fails: the return after the loop
LoopExhausted ==
    /\ rpc = "loop"
    /\ i >= MaxIterations
    /\ rret' = Return(<<>>, ErrTooManyToolCalls)
    /\ rpc' = "done"
    /\ UNCHANGED <<conv, script, msgs, i, calls, k, nModel, nExec, inflight, resp, titleVars, srvVars, wxVars, holVars>>

\* an error of the model call is retried on the next iteration
ModelFailsRetries ==
    /\ rpc = "await"
    /\ resp' = Response(ErrModel, 0, <<>>, <<>>)
    /\ inflight' = "none"
    /\ i' = i + 1
    /\ rpc' = "loop"
    /\ UNCHANGED <<conv, script, msgs, calls, k, rret, nModel, nExec, titleVars, srvVars, wxVars, holVars>>

\* the model call returns an error
ModelFails ==
    /\ rpc = "await"
    /\ resp' = Response(ErrModel, 0, <<>>, <<>>)
    /\ inflight' = "none"
    /\ rret' = Return(<<>>, ErrModel)
    /\ rpc' = "done"
    /\ UNCHANGED <<conv, script, msgs, i, calls, k, nModel, nExec, titleVars, srvVars, wxVars, holVars>>

\* the model call returns zero choices
ModelEmpty ==
    /\ rpc = "await"
    /\ resp' = Response(Nil, 0, <<>>, <<>>)
    /\ inflight' = "none"
    /\ rret' = Return(<<>>, ErrNoChoices)
    /\ rpc' = "done"
    /\ UNCHANGED <<conv, script, msgs, i, calls, k, nModel, nExec, titleVars, srvVars, wxVars, holVars>>

\* a tool-free answer with empty content is not taken as final: the loop goes on
ModelTextSkipsEmpty ==
    /\ rpc = "await"
    /\ \E t \in ReplyTexts :
          /\ resp' = Response(Nil, 1, t, <<>>)
          /\ IF t = <<>>
             THEN /\ i' = i + 1
                  /\ rpc' = "loop"
                  /\ UNCHANGED rret
             ELSE /\ rret' = Return(resp'.content, Nil)
                  /\ rpc' = "done"
                  /\ UNCHANGED i
    /\ inflight' = "none"
    /\ UNCHANGED <<conv, script, msgs, calls, k, nModel, nExec, titleVars, srvVars, wxVars, holVars>>

\* the first choice has no tool calls: its content is returned
ModelText ==
    /\ rpc = "await"
    /\ \E t \in ReplyTexts :
          /\ resp' = Response(Nil, 1, t, <<>>)
          /\ rret' = Return(resp'.content, Nil)
    /\ inflight' = "none"
    /\ rpc' = "done"
    /\ UNCHANGED <<conv, script, msgs, i, calls, k, nModel, nExec, titleVars, srvVars, wxVars, holVars>>

\* the first choice has tool calls: the model turn is appended and the
\* range over message.ToolCalls starts
ModelTools ==
    /\ rpc = "await"
    /\ LET tc == ToolCallsOf(script, nModel)
       IN /\ Len(tc) > 0
          /\ resp' = Response(Nil, 1, <<>>, tc)
          /\ msgs' = Append(msgs, Turn("assistant", resp'.content, resp'.toolCalls, NoCallID))
          /\ calls' = resp'.toolCalls
    /\ k' = 1
    /\ inflight' = "none"
    /\ rpc' = "tools"
    /\ UNCHANGED <<conv, script, i, rret, nModel, nExec, titleVars, srvVars, wxVars, holVars>>

\* after the tool message of call k: the next call, or `continue`
NextCall ==
    IF k < Len(calls)
    THEN /\ k' = k + 1
         /\ rpc' = "tools"
         /\ UNCHANGED <<i, calls>>
    ELSE /\ k' = 0
         /\ calls' = <<>>
         /\ i' = i + 1
         /\ rpc' = "loop"

\* an unknown tool ends Reply with the error of executeTool
ToolNotFoundAborts ==
    /\ rpc = "tools"
    /\ calls[k].Name \notin RegisteredTools
    /\ rret' = Return(<<>>, UnknownToolErr(calls[k].Name))
    /\ rpc' = "done"
    /\ UNCHANGED <<conv, script, msgs, i, calls, k, nModel, nExec, inflight, resp, titleVars, srvVars, wxVars, holVars>>

\* executeTool finds no tool of that name: the error becomes the tool message
ToolNotFound ==
    /\ rpc = "tools"
    /\ calls[k].Name \notin RegisteredTools
    /\ msgs' = Append(msgs, ToolMessage(
                   ToolResultText(CHOOSE o \in ExecuteOutcomes(calls[k].Name) : TRUE), calls[k].ID))
    /\ NextCall
    /\ UNCHANGED <<conv, script, rret, nModel, nExec, inflight, resp, titleVars, srvVars, wxVars, holVars>>

\* every call of the batch is started at once, none waits for the one before
ToolStartWholeBatch ==
    /\ rpc = "tools"
    /\ calls[k].Name \in RegisteredTools
    /\ nExec' = nExec + (Len(calls) - k + 1)
    /\ inflight' = "tool"
    /\ rpc' = "exec"
    /\ UNCHANGED <<conv, script, msgs, i, calls, k, rret, nModel, resp, titleVars, srvVars, wxVars, holVars>>

\* executeTool finds the tool and calls its Execute
ToolStart ==
    /\ rpc = "tools"
    /\ calls[k].Name \in RegisteredTools
    /\ nExec' = nExec + 1
    /\ inflight' = "tool"
    /\ rpc' = "exec"
    /\ UNCHANGED <<conv, script, msgs, i, calls, k, rret, nModel, resp, titleVars, srvVars, wxVars, holVars>>

\* every tool message carries the identifier of the first call of the batch
ToolFinishFirstID ==
    /\ rpc = "exec"
    /\ inflight' = "none"
    /\ msgs' = Append(msgs, ToolMessage(ToolResultText(script[k].out), calls[1].ID))
    /\ NextCall
    /\ UNCHANGED <<conv, script, rret, nModel, nExec, resp, titleVars, srvVars, wxVars, holVars>>

\* a failed Execute ends Reply with the tool's error
ToolFinishAborts ==
    /\ rpc = "exec"
    /\ inflight' = "none"
    /\ IF script[k].out.err # Nil
       THEN /\ rret' = Return(<<>>, script[k].out.err)
            /\ rpc' = "done"
            /\ UNCHANGED <<msgs, i, calls, k>>
       ELSE /\ msgs' = Append(msgs, ToolMessage(script[k].out.res, calls[k].ID))
            /\ NextCall
            /\ UNCHANGED rret
    /\ UNCHANGED <<conv, script, nModel, nExec, resp, titleVars, srvVars, wxVars, holVars>>

\* Execute returns: its result, or the failure text, becomes the tool message
ToolFinish ==
    /\ rpc = "exec"
    /\ inflight' = "none"
    /\ msgs' = Append(msgs, ToolMessage(ToolResultText(script[k].out), calls[k].ID))
    /\ NextCall
    /\ UNCHANGED <<conv, script, rret, nModel, nExec, resp, titleVars, srvVars, wxVars, holVars>>

ReplyStep ==
    \/ ReplyEnter
    \/ ModelCall
    \/ LoopExhausted
    \/ ModelFails
    \/ ModelEmpty
    \/ ModelText
    \/ ModelTools
    \/ ToolNotFound
    \/ ToolStart
    \/ ToolFinish

\* the conversations Reply is called with directly
ReplyConvs ==
    { [ID |-> 1, Title |-> <<"t">>, Messages |-> ms] :
        ms \in { <<>>,
                 <<Message(RoleUser, Hi)>>,
                 <<Message(RoleUser, Hi), Message(RoleAssistant, Yo), Message(RoleUser, Hi)>> } }

ReplyIdle ==
    /\ msgs = <<>>
    /\ i = 0
    /\ calls = <<>>
    /\ k = 0
    /\ rret = NoReturn
    /\ nModel = 0
    /\ nExec = 0
    /\ inflight = "none"
    /\ resp = NoResponse

----------------------------------------------------------------------------
(* Assistant.Title *)

\* the length a title is cut to
TitleMaxLen == 80

Hyphen == "-"
DoubleQuote == "\""
SingleQuote == "'"

\* the cutset of strings.Trim in Title
TitleCutset == {Space, Tab, CR, NL, Hyphen, DoubleQuote, SingleQuote}

TitleInstruction == <<"Generate a concise, descriptive title for the conversation based on the user message.">>

EmptyConversationTitle == <<"An empty conversation">>

ErrEmptyTitle == "empty response from OpenAI for title generation"

\* strings.ReplaceAll(s, old, new) for single atoms
ReplaceAll(s, old, new) == [p \in 1..Len(s) |-> IF s[p] = old THEN new ELSE s[p]]

\* only the right end is trimmed
TrimRightOnly(s, cut) == TrimRightIn(s, cut)

\* strings.Trim(s, cutset)
Trim(s, cut) == TrimRightIn(TrimLeftIn(s, cut), cut)

\* title[:80] when len(title) > 80; len counts bytes and the slice is of bytes
Truncate(s) == IF Len(s) > TitleMaxLen THEN SubSeq(s, 1, TitleMaxLen) ELSE s

\* the post-processing of the first choice's content
CleanTitle(content) == Truncate(Trim(ReplaceAll(content, NL, Space), TitleCutset))

\* the turns Title sends: the instruction, then one user turn per message
RECURSIVE TitleTurns(_)
TitleTurns(ms) ==
    IF ms = <<>> THEN <<>>
    ELSE <<UserMessage(Head(ms).Content)>> \o TitleTurns(Tail(ms))

\* what Title returns for a result of the model call
TitleResult(r) ==
    IF r.err # Nil THEN Return(<<>>, r.err)
    ELSE IF r.choices = 0 \/ TrimSpace(r.content) = <<>> THEN Return(<<>>, ErrEmptyTitle)
    ELSE Return(CleanTitle(r.content), Nil)

\* n times the byte b
Rep(n, b) == [p \in 1..n |-> b]

\* the two bytes of the UTF-8 encoding of U+00E9, and the text of n of them
LeadByte == "0xC3"
ContinuationByte == "0xA9"
EAcutes(n) == [p \in 1..(2 * n) |-> IF p % 2 = 1 THEN LeadByte ELSE ContinuationByte]

\* utf8.RuneCountInString for texts of ASCII bytes and of these two bytes
RuneCount(s) == Cardinality({ p \in DOMAIN s : s[p] # ContinuationByte })

\* the contents the model offers as a title, spelled byte by byte: short ones,
\* and ones longer than the limit, in ASCII and in two-byte characters
TitleContents ==
    { <<"W", "x">>,
      <<Hyphen, Space, "W", NL, "x", DoubleQuote>>,
      <<Hyphen, Hyphen>>,
      <<Space, NL>>,
      <<FF, "0xE2", "0x80", "0xA8">>,
      <<VT, "W", "x", FF>>,
      Rep(TitleMaxLen + 1, "a"),
      Rep(TitleMaxLen - 1, "a") \o <<Space, "b", "c">>,
      <<Space, Hyphen>> \o Rep(TitleMaxLen, "a") \o <<NL>>,
      EAcutes(TitleMaxLen + 1),
      <<"a">> \o EAcutes(TitleMaxLen) }

\* the results of the model call of Title
TitleResponses ==
    { Response(ErrModel, 0, <<>>, <<>>), Response(Nil, 0, <<>>, <<>>) } \cup
    { Response(Nil, 1, c, <<>>) : c \in TitleContents }

\* the entry of Title without the short cut on an empty conversation
TitleEnterAlwaysAsks ==
    /\ tpc = "call"
    /\ tmsgs' = <<AssistantMessage(TitleInstruction)>> \o TitleTurns(conv.Messages)
    /\ nTitle' = nTitle + 1
    /\ tpc' = "await"
    /\ UNCHANGED <<conv, script, tresp, tret, replyVars, srvVars, wxVars, holVars>>

\* the entry of Title: the short cut on an empty conversation, else the turns
\* are built and the model is called
TitleEnter ==
    /\ tpc = "call"
    /\ IF Len(conv.Messages) = 0
       THEN /\ tret' = Return(EmptyConversationTitle, Nil)
            /\ tpc' = "done"
            /\ UNCHANGED <<tmsgs, nTitle>>
       ELSE /\ tmsgs' = <<AssistantMessage(TitleInstruction)>> \o TitleTurns(conv.Messages)
            /\ nTitle' = nTitle + 1
            /\ tpc' = "await"
            /\ UNCHANGED tret
    /\ UNCHANGED <<conv, script, tresp, replyVars, srvVars, wxVars, holVars>>

\* the title task writes the title into the conversation itself
TitleReturnSetsTitle ==
    /\ tpc = "await"
    /\ \E r \in TitleResponses :
          /\ tresp' = r
          /\ tret' = TitleResult(r)
          /\ conv' = [conv EXCEPT !.Title = tret'.text]
    /\ tpc' = "done"
    /\ UNCHANGED <<script, tmsgs, nTitle, replyVars, srvVars, wxVars, holVars>>

\* the model call of Title returns
TitleReturn ==
    /\ tpc = "await"
    /\ \E r \in TitleResponses :
          /\ tresp' = r
          /\ tret' = TitleResult(r)
    /\ tpc' = "done"
    /\ UNCHANGED <<conv, script, tmsgs, nTitle, replyVars, srvVars, wxVars, holVars>>

\* the conversations Title is called on: every sequence of at most MaxMsgs
\* messages of either role
TitleConvs ==
    { [ID |-> 1, Title |-> <<"t">>, Messages |-> ms] :
        ms \in UNION { [1..n -> { Message(r, c) : r \in {RoleUser, RoleAssistant}, c \in {Hi, Yo} }] :
                          n \in 0..MaxMsgs } }

TitleStep == TitleEnter \/ TitleReturn

TitleIdle ==
    /\ tmsgs = <<>>
    /\ tresp = NoResponse
    /\ tret = NoReturn
    /\ nTitle = 0

----------------------------------------------------------------------------
(* model.Repository *)

\* CreateConversation stores the conversation under its identifier
CreateConversation(r, c) == Append(r, c)

\* UpdateConversation replaces the stored conversation of that identifier
UpdateConversation(r, c) == [r EXCEPT ![c.ID] = c]

\* DescribeConversation finds the conversation, or fails
ErrNotFound == "conversation not found"
ErrStore == "store unavailable"

HasConversation(r, id) == id \in DOMAIN r

----------------------------------------------------------------------------
(* Server.StartConversation and Server.ContinueConversation *)

UntitledConversation == <<"Untitled conversation">>

ErrMessageRequired == "invalid_argument: message is required"
ErrConversationIdRequired == "invalid_argument: conversation_id is required"

\* twirp.InternalErrorWith(err)
InternalErrorWith(err) == "internal: " \o err

Request(kind, id, message) == [kind |-> kind, id |-> id, message |-> message]
NoRequest == Request("none", 0, <<>>)

NoResult == NoReturn

\* the handler's return value
ServerReturn(id, title, reply, err) == [id |-> id, title |-> title, reply |-> reply, err |-> err]
NoServerReturn == ServerReturn(0, <<>>, <<>>, "pending")
ServerError(err) == ServerReturn(0, <<>>, <<>>, err)

\* primitive.NewObjectID(): an identifier no stored conversation has
NewObjectID(r) == Len(r) + 1

\* the conversation StartConversation builds from the request
NewConversation(r, message) ==
    [ID |-> NewObjectID(r), Title |-> UntitledConversation,
     Messages |-> <<Message(RoleUser, message)>>]

\* the head of StartConversation: the conversation is built, the message is
\* validated, the channels and the WaitGroup are made
StartConversation ==
    /\ spc = "start"
    /\ conv' = NewConversation(repo, req.message)
    /\ IF TrimSpace(req.message) = <<>>
       THEN /\ sret' = ServerError(ErrMessageRequired)
            /\ spc' = "done"
       ELSE /\ spc' = "spawnTitle"
            /\ UNCHANGED sret
    /\ UNCHANGED <<script, replyVars, titleVars, req, wg, titleChan, replyChan,
                   titleResult, replyResult, repo, repoCalls>>
    /\ UNCHANGED <<wxVars, holVars>>

\* the channels are made without a buffer
ChanCapUnbuffered == 1 - 1

\* make(chan ..., 1): the capacity of titleChan and of replyChan
ChanCap == 1

\* wg.Add(1); go func() { title ... }
SpawnTitle ==
    /\ spc = "spawnTitle"
    /\ wg' = wg + 1
    /\ tpc' = "call"
    /\ spc' = "spawnReply"
    /\ UNCHANGED <<conv, script, replyVars, tmsgs, tresp, tret, nTitle, req, titleChan, replyChan,
                   titleResult, replyResult, sret, repo, repoCalls>>
    /\ UNCHANGED <<wxVars, holVars>>

\* wg.Add(1); go func() { reply ... }
SpawnReply ==
    /\ spc = "spawnReply"
    /\ wg' = wg + 1
    /\ rpc' = "call"
    /\ spc' = "wait"
    /\ UNCHANGED <<conv, script, msgs, i, calls, k, rret, nModel, nExec, inflight, resp,
                   titleVars, req, titleChan, replyChan, titleResult, replyResult, sret,
                   repo, repoCalls>>
    /\ UNCHANGED <<wxVars, holVars>>

\* the title task sends what Title returned; the channel holds one value
TitleSend ==
    /\ spc \in {"spawnReply", "wait"}
    /\ tpc = "done"
    /\ Len(titleChan) < ChanCap
    /\ titleChan' = Append(titleChan, tret)
    /\ tpc' = "sent"
    /\ UNCHANGED <<conv, script, replyVars, tmsgs, tresp, tret, nTitle, req, spc, wg, replyChan,
                   titleResult, replyResult, sret, repo, repoCalls>>
    /\ UNCHANGED <<wxVars, holVars>>

\* the title task ends: the deferred wg.Done()
TitleExit ==
    /\ tpc = "sent"
    /\ wg' = wg - 1
    /\ tpc' = "exit"
    /\ UNCHANGED <<conv, script, replyVars, tmsgs, tresp, tret, nTitle, req, spc, titleChan,
                   replyChan, titleResult, replyResult, sret, repo, repoCalls>>
    /\ UNCHANGED <<wxVars, holVars>>

\* the reply task sends what Reply returned; the channel holds one value
ReplySend ==
    /\ spc = "wait"
    /\ rpc = "done"
    /\ Len(replyChan) < ChanCap
    /\ replyChan' = Append(replyChan, rret)
    /\ rpc' = "sent"
    /\ UNCHANGED <<conv, script, msgs, i, calls, k, rret, nModel, nExec, inflight, resp,
                   titleVars, req, spc, wg, titleChan, titleResult, replyResult, sret,
                   repo, repoCalls>>
    /\ UNCHANGED <<wxVars, holVars>>

\* the reply task ends: the deferred wg.Done()
ReplyExit ==
    /\ rpc = "sent"
    /\ wg' = wg - 1
    /\ rpc' = "exit"
    /\ UNCHANGED <<conv, script, msgs, i, calls, k, rret, nModel, nExec, inflight, resp,
                   titleVars, req, spc, titleChan, replyChan, titleResult, replyResult,
                   sret, repo, repoCalls>>
    /\ UNCHANGED <<wxVars, holVars>>

\* wg.Wait() returns
WaitDone ==
    /\ spc = "wait"
    /\ wg = 0
    /\ spc' = "recvTitle"
    /\ UNCHANGED <<conv, script, replyVars, titleVars, req, wg, titleChan, replyChan,
                   titleResult, replyResult, sret, repo, repoCalls>>
    /\ UNCHANGED <<wxVars, holVars>>

\* titleResult := <-titleChan
ReceiveTitle ==
    /\ spc = "recvTitle"
    /\ Len(titleChan) > 0
    /\ titleResult' = Head(titleChan)
    /\ titleChan' = Tail(titleChan)
    /\ spc' = "recvReply"
    /\ UNCHANGED <<conv, script, replyVars, titleVars, req, wg, replyChan, replyResult,
                   sret, repo, repoCalls>>
    /\ UNCHANGED <<wxVars, holVars>>

\* replyResult := <-replyChan
ReceiveReply ==
    /\ spc = "recvReply"
    /\ Len(replyChan) > 0
    /\ replyResult' = Head(replyChan)
    /\ replyChan' = Tail(replyChan)
    /\ spc' = "merge"
    /\ UNCHANGED <<conv, script, replyVars, titleVars, req, wg, titleChan, titleResult,
                   sret, repo, repoCalls>>
    /\ UNCHANGED <<wxVars, holVars>>

\* the title result is taken whether Title failed or not
WithTitleAlways(c, tr) == [c EXCEPT !.Title = tr.text]

\* the message is put in front
WithMessageInFront(c, role, content) ==
    [c EXCEPT !.Messages = <<Message(role, content)>> \o @]

\* the conversation after the title result is handled
WithTitle(c, tr) == IF tr.err # Nil THEN c ELSE [c EXCEPT !.Title = tr.text]

\* the conversation with one more message
WithMessage(c, role, content) ==
    [c EXCEPT !.Messages = Append(@, Message(role, content))]

\* the reply's error is not looked at: the assistant message is appended and
\* the conversation goes on to be stored
MergeResultsIgnoresReplyErr ==
    /\ spc = "merge"
    /\ conv' = WithMessage(WithTitle(conv, titleResult), RoleAssistant, replyResult.text)
    /\ spc' = "create"
    /\ UNCHANGED sret
    /\ UNCHANGED <<script, replyVars, titleVars, req, wg, titleChan, replyChan,
                   titleResult, replyResult, repo, repoCalls>>
    /\ UNCHANGED <<wxVars, holVars>>

\* the results are handled: the title is set unless Title failed, a failed
\* reply ends the call, else the assistant message is appended
MergeResults ==
    /\ spc = "merge"
    /\ IF replyResult.err # Nil
       THEN /\ conv' = WithTitle(conv, titleResult)
            /\ sret' = ServerError(replyResult.err)
            /\ spc' = "done"
       ELSE /\ conv' = WithMessage(WithTitle(conv, titleResult), RoleAssistant, replyResult.text)
            /\ spc' = "create"
            /\ UNCHANGED sret
    /\ UNCHANGED <<script, replyVars, titleVars, req, wg, titleChan, replyChan,
                   titleResult, replyResult, repo, repoCalls>>
    /\ UNCHANGED <<wxVars, holVars>>

\* s.repo.CreateConversation and the response
PersistNew ==
    /\ spc = "create"
    /\ repoCalls' = Append(repoCalls, "CreateConversation")
    /\ \E ok \in BOOLEAN :
          IF ok
          THEN /\ repo' = CreateConversation(repo, conv)
               /\ sret' = ServerReturn(conv.ID, conv.Title, replyResult.text, Nil)
          ELSE /\ sret' = ServerError(ErrStore)
               /\ UNCHANGED repo
    /\ spc' = "done"
    /\ UNCHANGED <<conv, script, replyVars, titleVars, req, wg, titleChan, replyChan,
                   titleResult, replyResult>>
    /\ UNCHANGED <<wxVars, holVars>>

\* the head of ContinueConversation: the two validations, the conversation is
\* loaded, the user message is appended and Reply is called
ContinueConversation ==
    /\ spc = "continue"
    /\ IF req.id = 0
       THEN /\ sret' = ServerError(ErrConversationIdRequired)
            /\ spc' = "done"
            /\ UNCHANGED <<conv, repoCalls, rpc>>
       ELSE IF TrimSpace(req.message) = <<>>
       THEN /\ sret' = ServerError(ErrMessageRequired)
            /\ spc' = "done"
            /\ UNCHANGED <<conv, repoCalls, rpc>>
       ELSE /\ repoCalls' = Append(repoCalls, "DescribeConversation")
            /\ IF HasConversation(repo, req.id)
               THEN /\ conv' = WithMessage(repo[req.id], RoleUser, req.message)
                    /\ rpc' = "call"
                    /\ spc' = "reply"
                    /\ UNCHANGED sret
               ELSE /\ sret' = ServerError(ErrNotFound)
                    /\ spc' = "done"
                    /\ UNCHANGED <<conv, rpc>>
    /\ UNCHANGED <<script, msgs, i, calls, k, rret, nModel, nExec, inflight, resp, titleVars,
                   req, wg, titleChan, replyChan, titleResult, replyResult, repo>>
    /\ UNCHANGED <<wxVars, holVars>>

\* a failed Reply does not end the call: the conversation goes on to be stored
ContinueRepliedStoresOnFailure ==
    /\ spc = "reply"
    /\ rpc = "done"
    /\ rpc' = "exit"
    /\ IF rret.err # Nil
       THEN UNCHANGED conv
       ELSE conv' = WithMessage(conv, RoleAssistant, rret.text)
    /\ spc' = "update"
    /\ UNCHANGED <<script, msgs, i, calls, k, rret, nModel, nExec, inflight, resp, titleVars,
                   req, wg, titleChan, replyChan, titleResult, replyResult, sret, repo, repoCalls>>
    /\ UNCHANGED <<wxVars, holVars>>

\* the reply is returned to the caller but not appended to the conversation
ContinueRepliedNoAppend ==
    /\ spc = "reply"
    /\ rpc = "done"
    /\ rpc' = "exit"
    /\ IF rret.err # Nil
       THEN /\ sret' = ServerError(InternalErrorWith(rret.err))
            /\ spc' = "done"
       ELSE /\ spc' = "update"
            /\ UNCHANGED sret
    /\ UNCHANGED <<conv, script, msgs, i, calls, k, rret, nModel, nExec, inflight, resp, titleVars,
                   req, wg, titleChan, replyChan, titleResult, replyResult, repo, repoCalls>>
    /\ UNCHANGED <<wxVars, holVars>>

\* Reply has returned to ContinueConversation: a failure ends the call, else
\* the assistant message is appended
ContinueReplied ==
    /\ spc = "reply"
    /\ rpc = "done"
    /\ rpc' = "exit"
    /\ IF rret.err # Nil
       THEN /\ sret' = ServerError(InternalErrorWith(rret.err))
            /\ spc' = "done"
            /\ UNCHANGED conv
       ELSE /\ conv' = WithMessage(conv, RoleAssistant, rret.text)
            /\ spc' = "update"
            /\ UNCHANGED sret
    /\ UNCHANGED <<script, msgs, i, calls, k, rret, nModel, nExec, inflight, resp, titleVars,
                   req, wg, titleChan, replyChan, titleResult, replyResult, repo, repoCalls>>
    /\ UNCHANGED <<wxVars, holVars>>

\* s.repo.UpdateConversation and the response
PersistUpdate ==
    /\ spc = "update"
    /\ repoCalls' = Append(repoCalls, "UpdateConversation")
    /\ \E ok \in BOOLEAN :
          IF ok
          THEN /\ repo' = UpdateConversation(repo, conv)
               /\ sret' = ServerReturn(0, <<>>, rret.text, Nil)
          ELSE /\ sret' = ServerError(InternalErrorWith(ErrStore))
               /\ UNCHANGED repo
    /\ spc' = "done"
    /\ UNCHANGED <<conv, script, replyVars, titleVars, req, wg, titleChan, replyChan,
                   titleResult, replyResult>>
    /\ UNCHANGED <<wxVars, holVars>>

ServerIdle ==
    /\ wg = 0
    /\ titleChan = <<>>
    /\ replyChan = <<>>
    /\ titleResult = NoResult
    /\ replyResult = NoResult
    /\ sret = NoServerReturn
    /\ repoCalls = <<>>

\* the messages of the requests
RequestMessages == { <<>>, <<Space, Tab>>, <<VT, "0xC2", "0xA0">>, Hi, <<Space, "h", NL>> }

\* a conversation an earlier StartConversation has stored
StoredConversation ==
    [ID |-> 1, Title |-> <<"W", "x">>,
     Messages |-> <<Message(RoleUser, Yo), Message(RoleAssistant, <<"s", "u", "n", "n", "y">>)>>]

\* the batches of the model capability the server runs against
ServerScripts ==
    { <<[Name |-> DateToolName, out |-> Outcome(<<"2026-10-30T12:00:00Z">>, Nil)]>>,
      <<[Name |-> WeatherToolName, out |-> Outcome(WeatherFallback, "making request: timeout")]>>,
      <<[Name |-> UnknownToolName, out |-> Outcome(<<>>, UnknownToolErr(UnknownToolName))]>> }

----------------------------------------------------------------------------
(* WeatherClient.GetCurrentWeather *)

\* one retry more
MaxRetriesOneMore == 3 + 1

\* maxRetries
MaxRetries == 3

\* baseDelay, in milliseconds
BaseDelay == 200

RECURSIVE Pow2(_)
Pow2(n) == IF n = 0 THEN 1 ELSE 2 * Pow2(n - 1)

\* the shift is by attempt, not attempt-1
DelayShiftedByAttempt(a) == BaseDelay * Pow2(a)

\* baseDelay * time.Duration(1<<uint(attempt-1))
Delay(a) == BaseDelay * Pow2(a - 1)

ErrKeyNotSet == "WEATHER_API_KEY not set"
ErrCanceled == "context canceled"

\* the errors fetchWeather can return
FetchErrors == {"making request: timeout", "API returned 500: down"}

\* the report fetchWeather formats for a location
WeatherReport(loc) == <<"Current weather in ", loc>>

Locations == {"Barcelona", "Girona"}

\* the top of the for loop, after attempt was set or incremented: the loop
\* ends with the fallback, or the backoff wait starts, or the fetch starts
LoopHead(a) ==
    IF a >= MaxRetries
    THEN /\ wret' = Return(WeatherFallback, lastErr')
         /\ wpc' = "done"
         /\ UNCHANGED <<waits, timer, nFetch>>
    ELSE IF a > 0
    THEN /\ waits' = Append(waits, Delay(a))
         /\ timer' = FALSE
         /\ wpc' = "wait"
         /\ UNCHANGED <<wret, nFetch>>
    ELSE /\ nFetch' = nFetch + 1
         /\ wpc' = "fetch"
         /\ UNCHANGED <<wret, waits, timer>>

\* the API key is not looked at
WeatherEnterNoKeyCheck ==
    /\ wpc = "call"
    /\ attempt' = 0
    /\ lastErr' = Nil
    /\ LoopHead(0)
    /\ UNCHANGED <<conv, script, replyVars, titleVars, srvVars, holVars, apiKey, location, cancelled, fetchErrs>>

\* the entry of GetCurrentWeather: the check of the API key, then the first
\* attempt
WeatherEnter ==
    /\ wpc = "call"
    /\ IF apiKey = ""
       THEN /\ wret' = Return(WeatherUnconfigured, ErrKeyNotSet)
            /\ wpc' = "done"
            /\ UNCHANGED <<attempt, lastErr, waits, timer, nFetch>>
       ELSE /\ attempt' = 0
            /\ lastErr' = Nil
            /\ LoopHead(0)
    /\ UNCHANGED <<conv, script, replyVars, titleVars, srvVars, holVars, apiKey, location, cancelled, fetchErrs>>

\* time.After(delay) becomes ready while the select is blocked on it; a
\* select that ctx.Done() has woken is no longer waiting for the timer
TimerFires ==
    /\ wpc = "wait"
    /\ ~timer
    /\ ~cancelled
    /\ timer' = TRUE
    /\ UNCHANGED <<conv, script, replyVars, titleVars, srvVars, holVars, apiKey, location, cancelled, wpc, attempt, lastErr, wret, nFetch, waits, fetchErrs>>

\* the context of the call is cancelled
Cancel ==
    /\ wpc \in {"call", "wait", "fetch"}
    /\ ~cancelled
    /\ cancelled' = TRUE
    /\ UNCHANGED <<conv, script, replyVars, titleVars, srvVars, holVars, apiKey, location, wpc, attempt, lastErr, wret, nFetch, waits, timer, fetchErrs>>

\* the select returns the lost fetch error when ctx is done
WaitCancelledReturnsLastErr ==
    /\ wpc = "wait"
    /\ cancelled
    /\ ~timer
    /\ wret' = Return(<<>>, lastErr)
    /\ wpc' = "done"
    /\ UNCHANGED <<conv, script, replyVars, titleVars, srvVars, holVars, apiKey, location, cancelled, attempt, lastErr, nFetch, waits, timer, fetchErrs>>

\* the select takes the case <-ctx.Done(): ctx was done when the select
\* started, or became done before the timer fired
WaitCancelled ==
    /\ wpc = "wait"
    /\ cancelled
    /\ ~timer
    /\ wret' = Return(<<>>, ErrCanceled)
    /\ wpc' = "done"
    /\ UNCHANGED <<conv, script, replyVars, titleVars, srvVars, holVars, apiKey, location, cancelled, attempt, lastErr, nFetch, waits, timer, fetchErrs>>

\* the select takes the case <-time.After(delay): the fetch starts
WaitElapsed ==
    /\ wpc = "wait"
    /\ timer
    /\ nFetch' = nFetch + 1
    /\ wpc' = "fetch"
    /\ UNCHANGED <<conv, script, replyVars, titleVars, srvVars, holVars, apiKey, location, cancelled, attempt, lastErr, wret, waits, timer, fetchErrs>>

\* fetchWeather returns the report
FetchSucceeds ==
    /\ wpc = "fetch"
    /\ wret' = Return(WeatherReport(location), Nil)
    /\ wpc' = "done"
    /\ UNCHANGED <<conv, script, replyVars, titleVars, srvVars, holVars, apiKey, location, cancelled, attempt, lastErr, nFetch, waits, timer, fetchErrs>>

\* fetchWeather returns an error: it is kept and the next round starts
FetchFails ==
    /\ wpc = "fetch"
    /\ \E e \in FetchErrors :
          /\ lastErr' = e
          /\ fetchErrs' = Append(fetchErrs, e)
    /\ attempt' = attempt + 1
    /\ LoopHead(attempt')
    /\ UNCHANGED <<conv, script, replyVars, titleVars, srvVars, holVars, apiKey, location, cancelled>>

WeatherIdle ==
    /\ attempt = 0
    /\ lastErr = Nil
    /\ wret = NoReturn
    /\ nFetch = 0
    /\ waits = <<>>
    /\ timer = FALSE
    /\ fetchErrs = <<>>

WeatherStep ==
    \/ WeatherEnter
    \/ TimerFires
    \/ Cancel
    \/ WaitCancelled
    \/ WaitElapsed
    \/ FetchSucceeds
    \/ FetchFails

\* the requests a client sends
Requests ==
    { Request("start", 0, m) : m \in RequestMessages } \cup
    { Request("continue", id, m) : id \in 0..2, m \in RequestMessages }

\* the number of messages the repository holds
RECURSIVE StoredMessages(_)
StoredMessages(r) ==
    IF r = <<>> THEN 0 ELSE Len(Head(r).Messages) + StoredMessages(Tail(r))

\* the handler has returned and the next request arrives: the handler starts
\* on fresh locals, the repository is what the earlier calls left
NextRequest ==
    /\ spc = "done"
    /\ StoredMessages(repo) < MaxStored
    /\ \E q \in Requests :
          /\ req' = q
          /\ spc' = q.kind
    /\ conv' = [ID |-> 0, Title |-> <<>>, Messages |-> <<>>]
    /\ rpc' = "none"
    /\ msgs' = <<>>
    /\ i' = 0
    /\ calls' = <<>>
    /\ k' = 0
    /\ rret' = NoReturn
    /\ nModel' = 0
    /\ nExec' = 0
    /\ inflight' = "none"
    /\ resp' = NoResponse
    /\ tpc' = "none"
    /\ tmsgs' = <<>>
    /\ tresp' = NoResponse
    /\ tret' = NoReturn
    /\ nTitle' = 0
    /\ wg' = 0
    /\ titleChan' = <<>>
    /\ replyChan' = <<>>
    /\ titleResult' = NoResult
    /\ replyResult' = NoResult
    /\ sret' = NoServerReturn
    /\ repoCalls' = <<>>
    /\ UNCHANGED <<script, repo, wxVars, holVars>>

----------------------------------------------------------------------------
(* HolidaysTool.Execute *)

\* Instants are written as the number yyyymmdd of their day (all are midnights
\* UTC), so that the order of the numbers is the order of the instants.
\* The zero value of time.Time is the first instant of year 1.
ZeroTime == 10101

\* time.Time.IsZero
IsZero(t) == t = ZeroTime

\* a date argument: absent (""), not RFC3339, or the instant it parses to
DateArg(given, valid, instant) == [given |-> given, valid |-> valid, instant |-> instant]
NoDateArg == DateArg(FALSE, TRUE, ZeroTime)
BadDateArg == DateArg(TRUE, FALSE, ZeroTime)

\* the days the feeds and the bounds are drawn from
FeedDays == {20240101, 20240615, 20241225}
BoundDays == FeedDays \cup {20240201, ZeroTime}

DateArgs == {NoDateArg, BadDateArg} \cup { DateArg(TRUE, TRUE, d) : d \in BoundDays }

\* max_count: absent is the zero value
MaxCounts == {-1, 0, 1, 2}

HolidaysArgs == [before : DateArgs, after : DateArgs, maxCount : MaxCounts]

\* an event of the feed: whether GetAllDayStartAt succeeds, the date it
\* returns, and the value of SUMMARY
Event(valid, start, summary) == [valid |-> valid, start |-> start, summary |-> summary]

Events ==
    { Event(TRUE, 20240101, "New Year"),
      Event(TRUE, 20240615, "Midsummer"),
      Event(TRUE, 20241225, "Christmas"),
      Event(FALSE, ZeroTime, "Broken") }

\* the feeds, in any order of dates, repetitions included
Feeds == UNION { [1..n -> Events] : n \in 0..MaxEvents }

ErrFeed == "calendar unavailable"
ErrInvalidBefore == "invalid before_date"
ErrInvalidAfter == "invalid after_date"

\* two digits, zero-padded
Pad2(n) == IF n < 10 THEN "0" \o ToString(n) ELSE ToString(n)

\* four digits, zero-padded
Pad4(n) ==
    IF n < 10 THEN "000" \o ToString(n)
    ELSE IF n < 100 THEN "00" \o ToString(n)
    ELSE IF n < 1000 THEN "0" \o ToString(n)
    ELSE ToString(n)

\* date.Format(time.DateOnly)
FormatDateOnly(t) == Pad4(t \div 10000) \o "-" \o Pad2((t \div 100) % 100) \o "-" \o Pad2(t % 100)

\* the line of an event
HolidayLine(ev) == <<FormatDateOnly(ev.start), ": ", ev.summary>>

\* strings.Join(lines, "\n")
RECURSIVE Join(_)
Join(lines) ==
    IF lines = <<>> THEN <<>>
    ELSE IF Len(lines) = 1 THEN Head(lines)
    ELSE Head(lines) \o <<NL>> \o Join(Tail(lines))

\* time.Parse of an argument that is given; an absent one leaves the zero value
ParsedDate(a) == IF a.given THEN a.instant ELSE ZeroTime

\* the cap lets one line too many through
RECURSIVE FilterLoopCapOneLate(_, _, _, _, _, _)
FilterLoopCapOneLate(events, p, holidays, beforeDate, afterDate, maxCount) ==
    IF p > Len(events) THEN holidays
    ELSE IF ~events[p].valid
    THEN FilterLoopCapOneLate(events, p + 1, holidays, beforeDate, afterDate, maxCount)
    ELSE IF maxCount > 0 /\ Len(holidays) > maxCount
    THEN holidays
    ELSE IF ~IsZero(beforeDate) /\ events[p].start > beforeDate
    THEN FilterLoopCapOneLate(events, p + 1, holidays, beforeDate, afterDate, maxCount)
    ELSE IF ~IsZero(afterDate) /\ events[p].start < afterDate
    THEN FilterLoopCapOneLate(events, p + 1, holidays, beforeDate, afterDate, maxCount)
    ELSE FilterLoopCapOneLate(events, p + 1, Append(holidays, HolidayLine(events[p])),
                              beforeDate, afterDate, maxCount)

\* the loop over the events from the p-th on, holidays being the lines so far:
\* a malformed date is skipped first, then the cap ends the loop, then the two
\* date filters skip
RECURSIVE FilterLoop(_, _, _, _, _, _)
FilterLoop(events, p, holidays, beforeDate, afterDate, maxCount) ==
    IF p > Len(events) THEN holidays
    ELSE IF ~events[p].valid
    THEN FilterLoop(events, p + 1, holidays, beforeDate, afterDate, maxCount)
    ELSE IF maxCount > 0 /\ Len(holidays) >= maxCount
    THEN holidays
    ELSE IF ~IsZero(beforeDate) /\ events[p].start > beforeDate
    THEN FilterLoop(events, p + 1, holidays, beforeDate, afterDate, maxCount)
    ELSE IF ~IsZero(afterDate) /\ events[p].start < afterDate
    THEN FilterLoop(events, p + 1, holidays, beforeDate, afterDate, maxCount)
    ELSE FilterLoop(events, p + 1, Append(holidays, HolidayLine(events[p])),
                    beforeDate, afterDate, maxCount)

\* HolidaysTool.Execute on arguments that unmarshal
Execute(args, ferr, events) ==
    IF args.before.given /\ ~args.before.valid THEN Return(<<>>, ErrInvalidBefore)
    ELSE IF args.after.given /\ ~args.after.valid THEN Return(<<>>, ErrInvalidAfter)
    ELSE IF ferr # Nil THEN Return(HolidaysFallback, ferr)
    ELSE Return(Join(FilterLoop(events, 1, <<>>, ParsedDate(args.before), ParsedDate(args.after),
                                args.maxCount)), Nil)

HolidaysExecute ==
    /\ hpc = "call"
    /\ hret' = Execute(hargs, feedErr, feed)
    /\ hpc' = "done"
    /\ UNCHANGED <<conv, script, replyVars, titleVars, srvVars, wxVars, hargs, feed, feedErr>>

HolidaysIdle ==
    /\ hargs = [before |-> NoDateArg, after |-> NoDateArg, maxCount |-> 0]
    /\ feed = <<>>
    /\ feedErr = Nil
    /\ hret = NoReturn

----------------------------------------------------------------------------
(* The specifications *)

\* Reply called on one of ReplyConvs, against a model capability that follows a script
InitReply ==
    /\ conv \in ReplyConvs
    /\ script \in Batches(MaxCalls)
    /\ rpc = "call"
    /\ ReplyIdle
    /\ TitleIdle
    /\ tpc = "none"
    /\ ServerIdle
    /\ req = NoRequest
    /\ spc = "none"
    /\ repo = <<>>
    /\ WeatherIdle
    /\ apiKey = ""
    /\ location = ""
    /\ cancelled = FALSE
    /\ wpc = "none"
    /\ HolidaysIdle
    /\ hpc = "none"

NextReply == ReplyStep

SpecReply == InitReply /\ [][NextReply]_vars

\* One request arrives at a server whose repository is empty or holds one
\* conversation
InitServer ==
    /\ repo \in { <<>>, <<StoredConversation>> }
    /\ \/ /\ req \in { Request("start", 0, m) : m \in RequestMessages }
          /\ spc = "start"
       \/ /\ req \in { Request("continue", id, m) : id \in 0..2, m \in RequestMessages }
          /\ spc = "continue"
    /\ conv = [ID |-> 0, Title |-> <<>>, Messages |-> <<>>]
    /\ script \in ServerScripts
    /\ rpc = "none"
    /\ tpc = "none"
    /\ ReplyIdle
    /\ TitleIdle
    /\ ServerIdle
    /\ WeatherIdle
    /\ apiKey = ""
    /\ location = ""
    /\ cancelled = FALSE
    /\ wpc = "none"
    /\ HolidaysIdle
    /\ hpc = "none"

NextServer ==
    \/ StartConversation
    \/ SpawnTitle
    \/ SpawnReply
    \/ TitleEnter
    \/ TitleReturn
    \/ TitleSend
    \/ TitleExit
    \/ ReplyEnter
    \/ ModelCall
    \/ LoopExhausted
    \/ ModelFails
    \/ ModelEmpty
    \/ ModelText
    \/ ModelTools
    \/ ToolNotFound
    \/ ToolStart
    \/ ToolFinish
    \/ ReplySend
    \/ ReplyExit
    \/ WaitDone
    \/ ReceiveTitle
    \/ ReceiveReply
    \/ MergeResults
    \/ PersistNew
    \/ ContinueConversation
    \/ ContinueReplied
    \/ PersistUpdate

SpecServer == InitServer /\ [][NextServer]_vars

\* The same server with goroutines that are scheduled: a task that can send or
\* end does so, and so does a coordinator that can pass the join or receive
JoinFairness ==
    /\ WF_vars(TitleSend)
    /\ WF_vars(TitleExit)
    /\ WF_vars(ReplySend)
    /\ WF_vars(ReplyExit)
    /\ WF_vars(WaitDone)
    /\ WF_vars(ReceiveTitle)
    /\ WF_vars(ReceiveReply)

SpecServerFair == InitServer /\ [][NextServer]_vars /\ JoinFairness

\* A server that starts on an empty repository and handles one request after
\* the other
InitSession == InitServer /\ repo = <<>>

NextSession == NextServer \/ NextRequest

SpecSession == InitSession /\ [][NextSession]_vars

\* Title called on its own
InitTitle ==
    /\ conv \in TitleConvs
    /\ script = <<>>
    /\ tpc = "call"
    /\ TitleIdle
    /\ rpc = "none"
    /\ ReplyIdle
    /\ ServerIdle
    /\ req = NoRequest
    /\ spc = "none"
    /\ repo = <<>>
    /\ WeatherIdle
    /\ apiKey = ""
    /\ location = ""
    /\ cancelled = FALSE
    /\ wpc = "none"
    /\ HolidaysIdle
    /\ hpc = "none"

NextTitle == TitleStep

SpecTitle == InitTitle /\ [][NextTitle]_vars

\* HolidaysTool.Execute called on its own, on every feed and every arguments
InitHolidays ==
    /\ hargs \in HolidaysArgs
    /\ feed \in Feeds
    /\ feedErr \in {Nil, ErrFeed}
    /\ feedErr # Nil => feed = <<>>
    /\ hret = NoReturn
    /\ hpc = "call"
    /\ conv = [ID |-> 0, Title |-> <<>>, Messages |-> <<>>]
    /\ script = <<>>
    /\ rpc = "none"
    /\ tpc = "none"
    /\ ReplyIdle
    /\ TitleIdle
    /\ ServerIdle
    /\ req = NoRequest
    /\ spc = "none"
    /\ repo = <<>>
    /\ WeatherIdle
    /\ apiKey = ""
    /\ location = ""
    /\ cancelled = FALSE
    /\ wpc = "none"

NextHolidays == HolidaysExecute

SpecHolidays == InitHolidays /\ [][NextHolidays]_vars

\* GetCurrentWeather called on its own
InitWeather ==
    /\ apiKey \in {"", "key"}
    /\ location \in Locations
    /\ cancelled = FALSE
    /\ wpc = "call"
    /\ WeatherIdle
    /\ HolidaysIdle
    /\ hpc = "none"
    /\ conv = [ID |-> 0, Title |-> <<>>, Messages |-> <<>>]
    /\ script = <<>>
    /\ rpc = "none"
    /\ tpc = "none"
    /\ ReplyIdle
    /\ TitleIdle
    /\ ServerIdle
    /\ req = NoRequest
    /\ spc = "none"
    /\ repo = <<>>

NextWeather == WeatherStep

SpecWeather == InitWeather /\ [][NextWeather]_vars

----------------------------------------------------------------------------
(* Properties of Assistant.Reply, under SpecReply *)

\* the positions of the model turns that carry tool calls
ToolTurns(ms) == { p \in DOMAIN ms : ms[p].toolCalls # <<>> }

\* the positions of the tool-result turns
ToolMsgs(ms) == { q \in DOMAIN ms : ms[q].role = "tool" }

\* the latest model turn that carries tool calls
LastToolTurn(ms) == CHOOSE p \in ToolTurns(ms) : \A o \in ToolTurns(ms) : o <= p

\* the call of the batch a tool-result turn answers
CallOf(t) == script[t.callID[2]]

\* the n turns after position p are the results of the first n calls of the
\* model turn at p, in the order of the calls
ResultsFollow(p, n) ==
    \A j \in 1..n :
        /\ p + j <= Len(msgs)
        /\ msgs[p + j].role = "tool"
        /\ msgs[p + j].callID = msgs[p].toolCalls[j].ID

\* C1: when every response of the model carries a tool call, Reply on a
\* conversation with a message ends with the too-many-tool-calls error after
\* exactly 15 model calls; no run makes a 16th model call.
C1_LoopExhaustedAfter15 ==
    /\ nModel <= 15
    /\ (rpc = "done" /\ Len(conv.Messages) >= 1 /\ Cardinality(ToolTurns(msgs)) = nModel)
          => (rret = Return(<<>>, ErrTooManyToolCalls) /\ nModel = 15)
    /\ (rpc = "done" /\ rret.err = ErrTooManyToolCalls) => nModel = 15

C1_Witness ==
    /\ rpc = "done"
    /\ rret.err = ErrTooManyToolCalls
    /\ Cardinality(ToolTurns(msgs)) = 15
    /\ Len(conv.Messages) = 3

\* C2: a model turn with N >= 1 tool calls is followed directly by exactly N
\* tool-result turns, the j-th carrying the identifier of the j-th call; while
\* the turn is being dispatched the results so far are those of the first
\* calls, in order; a model call is outstanding only when every turn is complete.
C2_ResultsInCallOrder ==
    /\ \A p \in ToolTurns(msgs) :
          LET n == Len(msgs[p].toolCalls)
          IN IF rpc \in {"tools", "exec"} /\ p = LastToolTurn(msgs)
             THEN /\ ResultsFollow(p, k - 1)
                  /\ Len(msgs) = p + k - 1
             ELSE /\ ResultsFollow(p, n)
                  /\ (p + n + 1 <= Len(msgs) => msgs[p + n + 1].role # "tool")
    /\ \A q \in ToolMsgs(msgs) :
          \E p \in ToolTurns(msgs) : p < q /\ q <= p + Len(msgs[p].toolCalls)

C2_Witness ==
    /\ rpc = "await"
    /\ nModel = 3
    /\ Len(script) = 2
    /\ script[1].Name = WeatherToolName
    /\ script[2].Name = DateToolName
    /\ msgs[Len(msgs)].callID = <<2, 2>>

\* C3: a tool whose Execute returns an error gets a tool-result turn with the
\* text "Tool execution failed: <error>"; Reply never ends in the middle of a
\* batch, so the calls after the failed one are dispatched too, and the next
\* model call is made with all the results of the batch in its turn sequence.
C3_ToolFailureIsATurn ==
    /\ \A q \in ToolMsgs(msgs) :
          (CallOf(msgs[q]).Name \in RegisteredTools /\ CallOf(msgs[q]).out.err # Nil)
             => msgs[q].content = <<"Tool execution failed: ", CallOf(msgs[q]).out.err>>
    /\ rpc = "done" =>
          Cardinality(ToolMsgs(msgs)) = Cardinality(ToolTurns(msgs)) * Len(script)
    /\ rpc = "await" =>
          Cardinality(ToolMsgs(msgs)) = (nModel - 1) * Len(script)

C3_Witness ==
    /\ rpc = "await"
    /\ nModel = 2
    /\ Len(script) = 2
    /\ script[1].Name = WeatherToolName
    /\ script[1].out = Outcome(WeatherFallback, "making request: timeout")
    /\ script[2].Name = DateToolName
    /\ msgs[Len(msgs) - 1].content = <<"Tool execution failed: ", "making request: timeout">>
    /\ msgs[Len(msgs)].role = "tool"

\* C4: when the latest response has a choice and no tool call, Reply has
\* returned that response's text with no error, has made one model call more
\* than there are model turns with tool calls, and has run no tool beyond those
\* of the earlier turns; with a tool-free first response, one model call and no tool.
C4_TextEndsTheLoop ==
    (rpc = "done" /\ resp.err = Nil /\ resp.choices > 0 /\ resp.toolCalls = <<>>) =>
        /\ rret = Return(resp.content, Nil)
        /\ nModel = Cardinality(ToolTurns(msgs)) + 1
        /\ nExec = Cardinality({ q \in ToolMsgs(msgs) : CallOf(msgs[q]).Name \in RegisteredTools })
        /\ Cardinality(ToolMsgs(msgs)) = Cardinality(ToolTurns(msgs)) * Len(script)
        /\ (ToolTurns(msgs) = {} => (nModel = 1 /\ nExec = 0))

C4_Witness ==
    /\ rpc = "done"
    /\ rret = Return(<<"s", "u", "n", "n", "y">>, Nil)
    /\ nModel = 1
    /\ nExec = 0
    /\ Len(msgs) = 4

----------------------------------------------------------------------------
(* Properties of Server.StartConversation and ContinueConversation, under
   SpecServer *)

\* both tasks of StartConversation have run to their end
TasksJoined == req.kind = "start" /\ tpc = "exit" /\ rpc = "exit"

\* the conversation as StartConversation built it
Snapshot ==
    [ID |-> conv.ID, Title |-> <<"Untitled conversation">>,
     Messages |-> <<[Role |-> "user", Content |-> req.message]>>]

\* C5: once Reply has failed in StartConversation, CreateConversation is not
\* called, the conversation is not stored and keeps its single user message,
\* and the call ends with the reply's error, whatever Title returned.
C5_ReplyFailureFailsTheCall ==
    (req.kind = "start" /\ rpc \in {"done", "sent", "exit"} /\ rret.err # Nil) =>
        /\ repoCalls = <<>>
        /\ ~HasConversation(repo, conv.ID)
        /\ conv.Messages = <<[Role |-> "user", Content |-> req.message]>>
        /\ spc = "done" => (sret.err = rret.err /\ sret.reply = <<>>)

C5_Witness ==
    /\ req.kind = "start"
    /\ spc = "done"
    /\ rret.err = ErrTooManyToolCalls
    /\ sret.err = ErrTooManyToolCalls
    /\ tret = Return(<<"W", "x">>, Nil)

\* C6 as stated: with Title failed and Reply succeeded the call succeeds, and
\* the response and the stored conversation carry the placeholder title and
\* the reply.
C6_AsStated ==
    (TasksJoined /\ spc = "done" /\ tret.err # Nil /\ rret.err = Nil) =>
        /\ sret.err = Nil
        /\ sret.title = <<"Untitled conversation">>
        /\ sret.reply = rret.text
        /\ HasConversation(repo, conv.ID)

\* C6, amended: with Title failed and Reply succeeded, the title's error is
\* never the call's error; the call succeeds when CreateConversation succeeds,
\* and then the response and the stored conversation carry the placeholder
\* title and the reply; when CreateConversation fails the call fails with the
\* store's error and nothing is stored.
C6_TitleFailureSwallowed ==
    (TasksJoined /\ spc = "done" /\ tret.err # Nil /\ rret.err = Nil) =>
        /\ repoCalls = <<"CreateConversation">>
        /\ sret.err \in {Nil, ErrStore}
        /\ sret.err = Nil =>
              /\ sret.title = <<"Untitled conversation">>
              /\ sret.reply = rret.text
              /\ sret.id = conv.ID
              /\ HasConversation(repo, conv.ID)
              /\ repo[conv.ID].Title = <<"Untitled conversation">>
              /\ repo[conv.ID].Messages =
                    <<[Role |-> "user", Content |-> req.message],
                      [Role |-> "assistant", Content |-> rret.text]>>
        /\ sret.err # Nil => ~HasConversation(repo, conv.ID)

C6_Witness ==
    /\ TasksJoined
    /\ spc = "done"
    /\ tret.err = ErrEmptyTitle
    /\ rret = Return(<<"s", "u", "n", "n", "y">>, Nil)
    /\ sret.err = Nil
    /\ repo[sret.id].Title = <<"Untitled conversation">>

\* C7: with Title and Reply both succeeded, the conversation that is stored has
\* the title Title returned and two messages, the request's message as user
\* and the reply as assistant, and the response carries that title, that
\* reply and the conversation's identifier; the call fails only when
\* CreateConversation does.
C7_BothSucceed ==
    (TasksJoined /\ spc = "done" /\ tret.err = Nil /\ rret.err = Nil) =>
        /\ repoCalls = <<"CreateConversation">>
        /\ sret.err = Nil =>
              /\ HasConversation(repo, conv.ID)
              /\ repo[conv.ID].ID = conv.ID
              /\ repo[conv.ID].Title = tret.text
              /\ repo[conv.ID].Messages =
                    <<[Role |-> "user", Content |-> req.message],
                      [Role |-> "assistant", Content |-> rret.text]>>
              /\ sret.title = tret.text
              /\ sret.reply = rret.text
              /\ sret.id = conv.ID
        /\ sret.err # Nil => (sret.err = ErrStore /\ ~HasConversation(repo, conv.ID))

C7_Witness ==
    /\ TasksJoined
    /\ spc = "done"
    /\ sret = ServerReturn(2, <<"W", " ", "x">>, <<"s", "u", "n", "n", "y">>, Nil)
    /\ req.message = <<" ", "h", "\n">>
    /\ Len(repo) = 2
    /\ Len(repo[2].Messages) = 2

\* C8: in StartConversation, from the validation on and until both tasks have
\* ended, the conversation is the one built from the request; what Title and
\* Reply send to the model is built from that conversation.
C8_NoWriteBeforeJoin ==
    (req.kind = "start" /\ spc # "start") =>
        /\ ~(tpc = "exit" /\ rpc = "exit") => conv = Snapshot
        /\ tpc \in {"await", "done", "sent", "exit"} =>
              tmsgs = <<AssistantMessage(TitleInstruction), UserMessage(req.message)>>
        /\ rpc \notin {"none", "call"} =>
              SubSeq(msgs, 1, 2) = <<SystemMessage(SystemPreamble), UserMessage(req.message)>>

C8_Witness ==
    /\ req.kind = "start"
    /\ tpc = "done"
    /\ tret.err = Nil
    /\ rpc = "exec"
    /\ nModel = 2
    /\ conv = Snapshot

\* the text is made of white-space runes only
RECURSIVE AllWhitespace(_)
AllWhitespace(s) ==
    \/ s = <<>>
    \/ \E n \in 1..3 :
          /\ n <= Len(s)
          /\ SubSeq(s, 1, n) \in WhiteSpace
          /\ AllWhitespace(SubSeq(s, n + 1, Len(s)))

\* C9: for a request whose message is empty or all white space, no task is
\* started, no model call is made and the repository is not called; the
\* handler ends with an invalid-argument error.
C9_BlankMessageRejected ==
    (req.kind \in {"start", "continue"} /\ AllWhitespace(req.message)) =>
        /\ tpc = "none"
        /\ rpc = "none"
        /\ nTitle = 0
        /\ nModel = 0
        /\ repoCalls = <<>>
        /\ spc \in {"start", "continue", "done"}
        /\ spc = "done" => sret.err \in {ErrMessageRequired, ErrConversationIdRequired}

C9_Witness ==
    /\ req = Request("continue", 1, <<" ", "\t">>)
    /\ HasConversation(repo, 1)
    /\ spc = "done"
    /\ sret.err = ErrMessageRequired

----------------------------------------------------------------------------
(* Properties of WeatherClient.GetCurrentWeather, under SpecWeather *)

\* C10: no run makes a 4th fetch; with the key set and no cancellation, when
\* every fetch has failed the call has made exactly 3 fetches and returns the
\* fallback text with the error of the third fetch.
C10_ThreeAttemptsThenFallback ==
    /\ nFetch <= 3
    /\ (wpc = "done" /\ apiKey # "" /\ ~cancelled /\ Len(fetchErrs) = nFetch) =>
          /\ nFetch = 3
          /\ wret.text = WeatherFallback
          /\ wret.err # Nil
          /\ wret.err = fetchErrs[3]

C10_Witness ==
    /\ wpc = "done"
    /\ ~cancelled
    /\ nFetch = 3
    /\ Len(fetchErrs) = 3
    /\ wret = Return(WeatherFallback, fetchErrs[3])
    /\ fetchErrs[3] # fetchErrs[2]

\* C11: the waits started are 200ms and then 400ms, none before the first
\* fetch and none after the second wait; the n-th fetch starts after n-1
\* waits; a call that returns without error returns the report of the fetch
\* that succeeded, the k-th, after k-1 failed fetches and k-1 waits, k <= 3.
C11_BackoffDelays ==
    /\ waits \in { <<>>, <<200>>, <<200, 400>> }
    /\ wpc = "fetch" => Len(waits) = nFetch - 1
    /\ wpc = "wait" => Len(waits) = nFetch
    /\ (wpc = "done" /\ wret.err = Nil) =>
          /\ wret.text = <<"Current weather in ", location>>
          /\ nFetch \in 1..3
          /\ Len(fetchErrs) = nFetch - 1
          /\ Len(waits) = nFetch - 1

C11_Witness ==
    /\ wpc = "done"
    /\ wret = Return(<<"Current weather in ", "Girona">>, Nil)
    /\ Len(fetchErrs) = 2
    /\ nFetch = 3
    /\ waits = <<200, 400>>

\* C12: when ctx is done while the call waits before a retry and the timer has
\* not fired, the next step of the call is its return, with the cancellation
\* error and no text (not the error of the last fetch, not the fallback), and
\* no fetch is started.
C12_CancelEndsTheWait ==
    [][ (wpc = "wait" /\ cancelled /\ ~timer) =>
            /\ wpc' = "done"
            /\ wret' = Return(<<>>, "context canceled")
            /\ nFetch' = nFetch
            /\ waits' = waits ]_vars

C12_Witness ==
    /\ wpc = "done"
    /\ cancelled
    /\ wret = Return(<<>>, "context canceled")
    /\ lastErr = "API returned 500: down"
    /\ nFetch = 2
    /\ waits = <<200, 400>>

\* C13: without an API key the call makes no fetch and starts no wait, and it
\* returns the key-not-set error.
C13_NoKeyNoAttempt ==
    apiKey = "" =>
        /\ nFetch = 0
        /\ waits = <<>>
        /\ fetchErrs = <<>>
        /\ wpc \in {"call", "done"}
        /\ wpc = "done" => (wret.err = "WEATHER_API_KEY not set" /\ wret.text = WeatherUnconfigured)

C13_Witness ==
    /\ apiKey = ""
    /\ wpc = "done"
    /\ wret.err = ErrKeyNotSet
    /\ nFetch = 0

\* the text Title has when it reaches the truncation: the content of the
\* first choice with newlines replaced and the trim set stripped
BeforeTruncation == Trim(ReplaceAll(tresp.content, NL, Space), TitleCutset)

TitleReturned == tpc = "done" /\ tret.err = Nil /\ tresp.err = Nil /\ tresp.choices > 0

\* C14: a title is at most 80 characters long, and it is exactly 80 characters
\* long when the text that reached the truncation was longer than 80
\* characters.
C14_AsStated ==
    TitleReturned =>
        /\ RuneCount(tret.text) <= 80
        /\ RuneCount(BeforeTruncation) > 80 => RuneCount(tret.text) = 80

\* C15 as stated: a title neither begins nor ends with a character of the trim
\* set and holds no newline, whatever the model output.
C15_AsStated ==
    TitleReturned =>
        /\ \A p \in DOMAIN tret.text : tret.text[p] # NL
        /\ tret.text # <<>> =>
              /\ tret.text[1] \notin {" ", "\t", "\r", "\n", "-", "\"", "'"}
              /\ tret.text[Len(tret.text)] \notin {" ", "\t", "\r", "\n", "-", "\"", "'"}

\* C15: a title holds no newline and does not begin with a character of the
\* trim set, whatever the model output; it ends with one only when it was cut,
\* that is when it is 80 bytes long and the model output was longer.
C15_TrimmedBeforeTheCut ==
    TitleReturned =>
        /\ \A p \in DOMAIN tret.text : tret.text[p] # NL
        /\ tret.text # <<>> =>
              /\ tret.text[1] \notin {" ", "\t", "\r", "\n", "-", "\"", "'"}
              /\ tret.text[Len(tret.text)] \in {" ", "\t", "\r", "\n", "-", "\"", "'"} =>
                    (Len(tret.text) = 80 /\ Len(tresp.content) > 80)

C15_Witness ==
    /\ TitleReturned
    /\ Len(tresp.content) = 82
    /\ Len(tret.text) = 80
    /\ tret.text[80] = " "
    /\ tret.text[1] = "a"

\* C16: on a conversation without messages Title returns the fixed title
\* "An empty conversation" with no error and never calls the model.
C16_EmptyConversationTitle ==
    Len(conv.Messages) = 0 =>
        /\ nTitle = 0
        /\ tmsgs = <<>>
        /\ tpc \in {"none", "call", "done"}
        /\ tpc = "done" => tret = Return(<<"An empty conversation">>, Nil)

C16_Witness ==
    /\ conv.Messages = <<>>
    /\ tpc = "done"
    /\ tret = Return(EmptyConversationTitle, Nil)
    /\ nTitle = 0

\* the date of a day as the lines spell it
DayText(d) ==
    CASE d = 20240101 -> "2024-01-01"
      [] d = 20240615 -> "2024-06-15"
      [] d = 20241225 -> "2024-12-25"
      [] OTHER -> "?"

\* the event has a well-formed date, not after the before bound and not before
\* the after bound, where a bound is given
WithinBounds(ev) ==
    /\ ev.valid
    /\ hargs.before.given => ev.start <= hargs.before.instant
    /\ hargs.after.given => ev.start >= hargs.after.instant

\* the events of the feed that are within the bounds, in feed order, cut to the
\* first max_count of them when max_count is positive
Selected ==
    LET within == SelectSeq(feed, WithinBounds)
    IN  IF hargs.maxCount > 0 /\ Len(within) > hargs.maxCount
        THEN SubSeq(within, 1, hargs.maxCount)
        ELSE within

\* the text of the selected events: one line each, newlines between
RECURSIVE LinesOf(_)
LinesOf(evs) ==
    IF evs = <<>> THEN <<>>
    ELSE <<DayText(Head(evs).start), ": ", Head(evs).summary>> \o
         (IF Len(evs) > 1 THEN <<"\n">> ELSE <<>>) \o LinesOf(Tail(evs))

\* Execute returned from the filter: both date arguments parse and the
\* calendar loaded
Filtered ==
    /\ hpc = "done"
    /\ hargs.before.valid
    /\ hargs.after.valid
    /\ feedErr = Nil

\* C17: for every feed and every before bound, after bound and max_count,
\* Execute returns, without error, the lines of the first max_count events (all
\* of them when max_count is absent or not positive), in feed order, whose date
\* is well-formed, not after the before bound and not before the after bound.
C17_AsStated == Filtered => hret = Return(LinesOf(Selected), Nil)

\* C17 for before bounds other than the zero time: the same statement holds.
C17_ExceptZeroBefore ==
    (Filtered /\ ~(hargs.before.given /\ hargs.before.instant = ZeroTime)) =>
        hret = Return(LinesOf(Selected), Nil)

\* the example of C17: events on 2024-01-01, 2024-06-15 and 2024-12-25,
\* after_date 2024-02-01 and max_count 1
C17_Example ==
    /\ hpc = "done"
    /\ feed = <<Event(TRUE, 20240101, "New Year"), Event(TRUE, 20240615, "Midsummer"),
                Event(TRUE, 20241225, "Christmas")>>
    /\ hargs = [before |-> NoDateArg, after |-> DateArg(TRUE, TRUE, 20240201), maxCount |-> 1]
    /\ hret = Return(<<"2024-06-15", ": ", "Midsummer">>, Nil)

\* the tool-result turns that answer calls of registered tools
RegisteredResults == { q \in ToolMsgs(msgs) : CallOf(msgs[q]).Name \in RegisteredTools }

\* C18: a call that names an unregistered tool runs no tool and gets a
\* tool-result turn with the text "Tool execution failed: unknown tool: <name>";
\* it never ends Reply: the other calls of the batch are dispatched and the next
\* model call is made with every result of the batch.
C18_UnknownToolIsATurn ==
    /\ \A q \in ToolMsgs(msgs) :
          CallOf(msgs[q]).Name \notin {"get_today_date", "get_holidays", "get_weather"}
             => msgs[q].content = <<"Tool execution failed: ", "unknown tool: " \o CallOf(msgs[q]).Name>>
    /\ nExec = Cardinality(RegisteredResults) + (IF rpc = "exec" THEN 1 ELSE 0)
    /\ rpc = "done" =>
          /\ rret.err \in {Nil, ErrModel, ErrNoChoices, ErrTooManyToolCalls, ErrNoMessages}
          /\ Cardinality(ToolMsgs(msgs)) = Cardinality(ToolTurns(msgs)) * Len(script)
    /\ (rpc = "await" /\ nModel > 1) =>
          /\ Len(msgs) > Len(script)
          /\ ResultsFollow(Len(msgs) - Len(script), Len(script))

C18_Witness ==
    /\ rpc = "await"
    /\ nModel = 2
    /\ Len(script) = 2
    /\ script[1].Name = UnknownToolName
    /\ script[2].Name = DateToolName
    /\ nExec = 1
    /\ msgs[Len(msgs) - 1].content = <<"Tool execution failed: ", "unknown tool: get_flights">>
    /\ msgs[Len(msgs)].content = <<"2026-10-30T12:00:00Z">>

\* C19: when the latest model call returned an error or zero choices, Reply
\* has returned no text and that error (or the no-choices error), nothing is
\* outstanding, and it made no model call and ran no tool after the failed
\* call, at whichever iteration the call failed.
C19_ModelFailureIsFatal ==
    (rpc = "done" /\ resp # NoResponse /\ (resp.err # Nil \/ resp.choices = 0)) =>
        /\ rret.text = <<>>
        /\ rret.err = (IF resp.err # Nil THEN resp.err ELSE "no choices returned by OpenAI")
        /\ inflight = "none"
        /\ nModel = Cardinality(ToolTurns(msgs)) + 1
        /\ nExec = Cardinality(RegisteredResults)

C19_Witness ==
    /\ rpc = "done"
    /\ rret = Return(<<>>, ErrModel)
    /\ resp.err = ErrModel
    /\ nModel = 3
    /\ nExec = 4

\* C20: on a conversation without messages Reply returns the error
\* "conversation has no messages" at once: no turn is built, the model is never
\* called and no tool is run.
C20_NoMessagesNoCalls ==
    Len(conv.Messages) = 0 =>
        /\ nModel = 0
        /\ nExec = 0
        /\ msgs = <<>>
        /\ inflight = "none"
        /\ rpc \in {"none", "call", "done"}
        /\ rpc = "done" => rret = Return(<<>>, "conversation has no messages")

C20_Witness ==
    /\ conv.Messages = <<>>
    /\ rpc = "done"
    /\ rret.err = ErrNoMessages
    /\ script # <<>>

\* C21: a model call is outstanding exactly while Reply awaits it and a tool
\* exactly while Reply executes it, never both; a tool that is executing is the
\* only one started and not finished, and the results of the calls before it
\* are already appended, in order; a model call is outstanding only when every
\* tool call of every earlier turn has its result turn.
C21_OneAtATime ==
    /\ inflight \in {"none", "model", "tool"}
    /\ inflight = "model" <=> rpc = "await"
    /\ inflight = "tool" <=> rpc = "exec"
    /\ nExec = Cardinality({ q \in ToolMsgs(msgs) : CallOf(msgs[q]).Name \in RegisteredTools })
                 + (IF inflight = "tool" THEN 1 ELSE 0)
    /\ nModel = Cardinality(ToolTurns(msgs))
                 + (IF inflight = "model" \/ (rpc = "done" /\ resp.toolCalls = <<>> /\ resp # NoResponse)
                    THEN 1 ELSE 0)
    /\ inflight = "tool" =>
          /\ ResultsFollow(LastToolTurn(msgs), k - 1)
          /\ Len(msgs) = LastToolTurn(msgs) + k - 1
    /\ inflight = "model" =>
          /\ \A p \in ToolTurns(msgs) : ResultsFollow(p, Len(msgs[p].toolCalls))
          /\ msgs[Len(msgs)].toolCalls = <<>>

C21_Witness ==
    /\ rpc = "exec"
    /\ inflight = "tool"
    /\ Len(script) = 2
    /\ k = 2
    /\ nModel = 2
    /\ nExec = 4
    /\ msgs[Len(msgs)].role = "tool"
    /\ msgs[Len(msgs)].callID = <<2, 1>>

\* the messages of the conversation whose author is the user, in order
IsUserAuthored(m) == m.Role = RoleUser
UserAuthored == SelectSeq(conv.Messages, IsUserAuthored)

\* Title has called the model on a conversation with a message
TitleAsked == Len(conv.Messages) >= 1 /\ tpc \in {"await", "done"}

\* C22: on a conversation with a message Title calls the model exactly once,
\* and the turn sequence it sends is the instruction turn followed by exactly
\* one turn per user-authored message, carrying that message's content; the
\* messages of the assistant contribute no turn.
C22_AsStated ==
    TitleAsked =>
        /\ nTitle = 1
        /\ Len(tmsgs) = 1 + Len(UserAuthored)
        /\ tmsgs[1].content = TitleInstruction
        /\ \A j \in 1..Len(UserAuthored) :
              j + 1 <= Len(tmsgs) => tmsgs[j + 1].content = UserAuthored[j].Content

\* C22 with every message counted: one model call, and the instruction turn
\* followed by one user-role turn per message of the conversation, whoever
\* its author, carrying the message's content and no tool call.
C22_OneTurnPerMessage ==
    TitleAsked =>
        /\ nTitle = 1
        /\ Len(tmsgs) = 1 + Len(conv.Messages)
        /\ tmsgs[1].role = "assistant"
        /\ tmsgs[1].content = TitleInstruction
        /\ \A j \in 1..Len(conv.Messages) :
              /\ tmsgs[j + 1].role = "user"
              /\ tmsgs[j + 1].content = conv.Messages[j].Content
              /\ tmsgs[j + 1].toolCalls = <<>>

\* a conversation of a user message and an assistant message has reached the model
C22_AssistantMessageSent ==
    /\ tpc = "await"
    /\ conv.Messages = <<Message(RoleUser, Hi), Message(RoleAssistant, Yo)>>
    /\ tmsgs = <<AssistantMessage(TitleInstruction), UserMessage(Hi), UserMessage(Yo)>>

\* C23: a title that Title returns without an error is not empty, whatever
\* the model answered; so no stored conversation has an empty title.
C23_AsStated ==
    /\ (tpc = "done" /\ tret.err = Nil) => tret.text # <<>>
    /\ \A id \in DOMAIN repo : repo[id].Title # <<>>

\* StartConversation has succeeded and stored a conversation with an empty
\* title: the model answered the title request with two hyphens
C23_EmptyTitleStored ==
    /\ spc = "done"
    /\ req.kind = "start"
    /\ sret.err = Nil
    /\ tresp.content = <<"-", "-">>
    /\ tret = Return(<<>>, Nil)
    /\ HasConversation(repo, conv.ID)
    /\ repo[conv.ID].Title = <<>>
    /\ sret.title = <<>>

\* C24: when Execute returned a string next to an error, the tool-result turn
\* of that call is "Tool execution failed: <error>" and nothing else; no
\* tool-result turn holds the weather fallback, the key-not-configured text or
\* the holidays fallback.
C24_FallbackTextDiscarded ==
    \A q \in ToolMsgs(msgs) :
        /\ (CallOf(msgs[q]).out.err # Nil /\ CallOf(msgs[q]).out.res # <<>>) =>
              /\ Len(msgs[q].content) = 2
              /\ msgs[q].content[1] = "Tool execution failed: "
              /\ msgs[q].content[2] = CallOf(msgs[q]).out.err
        /\ \A p \in DOMAIN msgs[q].content :
              msgs[q].content[p] \notin
                 { "Unable to fetch weather data at the moment. The weather is probably fine though!",
                   "Weather API key not configured",
                   "Failed to load holiday events" }

C24_Witness ==
    /\ rpc = "await"
    /\ nModel = 2
    /\ Len(script) = 2
    /\ script[1] = [Name |-> HolidaysToolName, out |-> Outcome(HolidaysFallback, "calendar unreachable")]
    /\ script[2] = [Name |-> WeatherToolName, out |-> Outcome(WeatherUnconfigured, "WEATHER_API_KEY not set")]
    /\ msgs[Len(msgs) - 1].content = <<"Tool execution failed: ", "calendar unreachable">>
    /\ msgs[Len(msgs)].content = <<"Tool execution failed: ", "WEATHER_API_KEY not set">>

\* Title and Reply have both returned inside StartConversation
BothReturned == req.kind = "start" /\ tret # NoReturn /\ rret # NoReturn

\* both tasks have delivered and ended, the coordinator is past the join and
\* holds the result of each, and the channels are empty
JoinPassed ==
    /\ tpc = "exit"
    /\ rpc = "exit"
    /\ wg = 0
    /\ spc \in {"merge", "create", "done"}
    /\ titleResult = tret
    /\ replyResult = rret
    /\ titleChan = <<>>
    /\ replyChan = <<>>

\* C25: in every interleaving of the two tasks, once Title and Reply have both
\* returned, each task sends its result and ends, the coordinator passes
\* wg.Wait() and receives the one title result and the one reply result; no
\* channel ever holds more than one value and the counter is never negative.
C25_JoinNeverDeadlocks ==
    /\ [](Len(titleChan) <= 1 /\ Len(replyChan) <= 1 /\ wg \in 0..2)
    /\ BothReturned ~> JoinPassed

C25_Witness ==
    /\ JoinPassed
    /\ BothReturned
    /\ spc = "merge"
    /\ tret.err = ErrModel
    /\ rret.err = Nil

\* the messages are in pairs, a user message then an assistant message
Alternating(ms) ==
    /\ Len(ms) >= 2
    /\ Len(ms) % 2 = 0
    /\ \A p \in DOMAIN ms : ms[p].Role = (IF p % 2 = 1 THEN "user" ELSE "assistant")

\* C26: after any sequence of calls, failed or not, every stored conversation
\* has an even number of messages, at least 2, alternating user, assistant
\* from a user message; a stored conversation changes only in a
\* ContinueConversation on it, which appends the request's message as user
\* and the reply as assistant behind the messages stored before; no stored
\* conversation goes away.
C26_StoredMessagesAlternate ==
    /\ [](\A id \in DOMAIN repo : Alternating(repo[id].Messages))
    /\ [][ \A id \in DOMAIN repo :
              /\ id \in DOMAIN repo'
              /\ repo'[id] # repo[id] =>
                    /\ req.kind = "continue"
                    /\ req.id = id
                    /\ sret'.err = Nil
                    /\ repo'[id].Title = repo[id].Title
                    /\ repo'[id].Messages =
                          repo[id].Messages \o
                             <<[Role |-> "user", Content |-> req.message],
                               [Role |-> "assistant", Content |-> rret.text]>> ]_vars

\* a conversation StartConversation stored has been extended by a
\* ContinueConversation that followed it
C26_Witness ==
    /\ spc = "done"
    /\ req = Request("continue", 1, Hi)
    /\ sret.err = Nil
    /\ Len(repo) = 1
    /\ Len(repo[1].Messages) = 4
    /\ repo[1].Title = UntitledConversation
    /\ repo[1].Messages[1] = Message(RoleUser, <<Space, "h", NL>>)
    /\ repo[1].Messages[3] = Message(RoleUser, Hi)
    /\ repo[1].Messages[4] = Message(RoleAssistant, rret.text)

\* Reply has failed inside ContinueConversation and the call is over
ContinueReplyFailed ==
    /\ req.kind = "continue"
    /\ spc = "done"
    /\ rret.err \notin {Nil, "pending"}

\* C27: when Reply fails inside ContinueConversation, the call fails with that
\* error as an internal error, the only call to the repository is
\* DescribeConversation, and the repository holds what it held before: the
\* conversation without the request's message and without an assistant message.
C27_FailedReplyStoresNothing ==
    ContinueReplyFailed =>
        /\ sret.err = "internal: " \o rret.err
        /\ sret.reply = <<>>
        /\ repoCalls = <<"DescribeConversation">>
        /\ repo = <<StoredConversation>>
        /\ Len(repo[req.id].Messages) = 2
        /\ conv.Messages = Append(repo[req.id].Messages, [Role |-> "user", Content |-> req.message])

C27_Witness ==
    /\ ContinueReplyFailed
    /\ req = Request("continue", 1, Hi)
    /\ rret.err = ErrTooManyToolCalls
    /\ nModel = 15
    /\ sret = ServerError("internal: too many tool calls, unable to generate reply")
    /\ repo = <<StoredConversation>>

====
